---- MODULE Spec2Model ----
(***************************************************************************)
(* A model of number_density/nz_hyperrank/nz_hyperrank_swc.py: setup ranks *)
(* an ensemble of n(z) realisations, execute maps a hyperparameter to one  *)
(* of them.                                                                *)
(*                                                                         *)
(* Conventions.  numpy arrays are functions on 0..n-1.  Real numbers are   *)
(* exact rationals: a redshift grid is [num, den] (the points num[j]/den), *)
(* a normalised histogram is [num, den] (the densities num[j]/den, den the *)
(* sum the code divides by), a statistic is [num, den] with den > 0.       *)
(* Floating-point rounding is not modelled.  Grid values are multiples of  *)
(* a grid unit far above the code's 1e-8 tolerance, so "z[0] > 0.00000001" *)
(* is "z.num[0] > 0".                                                      *)
(***************************************************************************)
EXTENDS Integers, Sequences, FiniteSets, TLC

\* ------------------------------------------------------------------ bounds

\* The largest number of realisations the input file holds.
MaxReal == 3

\* ----------------------------------------------------------- array helpers

Len0(a) == Cardinality(DOMAIN a)

Arr(s) == [j \in 0..(Len(s) - 1) |-> s[j + 1]]

RECURSIVE SumTo(_, _)
SumTo(a, k) == IF k < 0 THEN 0 ELSE a[k] + SumTo(a, k - 1)

\* np.sum of a one-dimensional array
NpSum(a) == SumTo(a, Len0(a) - 1)

\* np.cumsum of a one-dimensional array
NpCumsum(a) == [k \in DOMAIN a |-> SumTo(a, k)]

\* The permutations of 0..n-1, tabulated once for the sizes the model uses.
PermTable ==
    [n \in 0..(MaxReal + 1) |->
        {p \in [0..(n - 1) -> 0..(n - 1)] : \A i, j \in 0..(n - 1) : p[i] = p[j] => i = j}]

Perms(n) == PermTable[n]

RECURSIVE Gcd(_, _)
Gcd(a, b) == IF b = 0 THEN a ELSE Gcd(b, a % b)

Abs(a) == IF a < 0 THEN -a ELSE a

\* A rational in lowest terms (den > 0): the same number, smaller integers.
Rat(n, d) == LET g == Gcd(Abs(n), d) IN [num |-> n \div g, den |-> d \div g]

RatLess(a, b) == a.num * b.den < b.num * a.den

RatAdd(a, b) == Rat(a.num * b.den + b.num * a.den, a.den * b.den)

RECURSIVE RatSumTo(_, _)
RatSumTo(a, k) == IF k < 0 THEN [num |-> 0, den |-> 1] ELSE RatAdd(a[k], RatSumTo(a, k - 1))

\* ndarray.mean over a one-dimensional array of rationals
RatMean(a) == LET s == RatSumTo(a, Len0(a) - 1) IN Rat(s.num, s.den * Len0(a))

\* np.argsort, default kind: numpy's quicksort is an introsort that sorts
\* fewer than 17 elements by insertion, so that on the arrays of this model
\* equal keys keep their index order.  The result is the one permutation
\* that puts the keys in non-decreasing order, equal keys by index.
Argsort(keys) ==
    CHOOSE p \in Perms(Len0(keys)) :
        \A k \in 0..(Len0(keys) - 2) :
            \/ RatLess(keys[p[k]], keys[p[k + 1]])
            \/ (~RatLess(keys[p[k + 1]], keys[p[k]]) /\ p[k] < p[k + 1])

\* An array of integers as the rationals it holds.
AsRat(a) == [i \in DOMAIN a |-> [num |-> a[i], den |-> 1]]

\* np.digitize(x, bins) for increasing bins: the number of bins[i] <= x,
\* with x = xnum / xden.
Digitize(xnum, xden, bins) == Cardinality({i \in DOMAIN bins : bins[i] * xden <= xnum})

\* Python indexing of a one-dimensional array: a negative index counts from the end.
PyIndex(a, i) == IF i < 0 THEN a[Len0(a) + i] ELSE a[i]

\* -------------------------------------------------------------- input file

\* The extensions an input file may hold: the grid columns Z_LOW, Z_HIGH,
\* Z_MID, one raw density column per tomographic bin (BIN1, BIN2), and the
\* mean inverse comoving distance the external nz_to_gchi utility yields
\* for each bin.  Raw densities may be negative; each column sums to > 0.
ExtA == [Z_LOW |-> Arr(<<0, 2>>), Z_HIGH |-> Arr(<<2, 4>>), Z_MID |-> Arr(<<1, 3>>),
         BIN |-> Arr(<<Arr(<<1, 3>>), Arr(<<3, 1>>)>>), inv_chi |-> Arr(<<3, 1>>)]

ExtB == [Z_LOW |-> Arr(<<0, 2>>), Z_HIGH |-> Arr(<<2, 4>>), Z_MID |-> Arr(<<1, 3>>),
         BIN |-> Arr(<<Arr(<<3, -1>>), Arr(<<1, 2>>)>>), inv_chi |-> Arr(<<1, 2>>)]

Extensions == {ExtA, ExtB}

\* The upsampling factors the options may set.
Upsamplings == {1, 2}

\* ------------------------------------------------------ load_histogram_form

\* The grid: Z_MID, or np.linspace(0.0, zhigh[-1], len(zlow) * upsampling).
HistGrid(ext, upsampling) ==
    IF upsampling = 1
    THEN [num |-> ext.Z_MID, den |-> 1]
    ELSE LET m == Len0(ext.Z_LOW) * upsampling
             last == ext.Z_HIGH[Len0(ext.Z_HIGH) - 1]
         IN [num |-> [j \in 0..(m - 1) |-> j * last], den |-> m - 1]

\* sample_bin = np.digitize(z, zlow) - 1
SampleBin(ext, upsampling) ==
    LET z == HistGrid(ext, upsampling)
    IN [j \in DOMAIN z.num |-> Digitize(z.num[j], z.den, ext.Z_LOW) - 1]

\* The densities before normalisation: the column, or the column gathered
\* by sample_bin.
HistDensity(ext, bin, upsampling) ==
    IF upsampling = 1
    THEN ext.BIN[bin - 1]
    ELSE LET sb == SampleBin(ext, upsampling)
         IN [j \in DOMAIN sb |-> PyIndex(ext.BIN[bin - 1], sb[j])]

\* norm = np.sum(nz)
HistNorm(ext, bin, upsampling) == NpSum(HistDensity(ext, bin, upsampling))

\* load_histogram_form(ext, bin, upsampling) = (z, nz / norm, norm - 1)
LoadHistogramForm(ext, bin, upsampling) ==
    [z |-> HistGrid(ext, upsampling),
     nz |-> [num |-> HistDensity(ext, bin, upsampling), den |-> HistNorm(ext, bin, upsampling)],
     mbias |-> HistNorm(ext, bin, upsampling) - 1]

\* ---------------------------------------------------- ensure_starts_at_zero

\* The clamping left out: the row as it came.
ClampRowLeftOut(row) == row

\* nz_new[nz_new < 0] = 0 on one row
ClampRow(row) == [num |-> [j \in DOMAIN row.num |-> IF row.num[j] < 0 THEN 0 ELSE row.num[j]],
                  den |-> row.den]

\* z_new = np.zeros(len(z) + 1); z_new[1:] = z
PrependZero(a) == [j \in 0..Len0(a) |-> IF j = 0 THEN 0 ELSE a[j - 1]]

\* ensure_starts_at_zero(z, nz).  inplace tells that nz_new is the argument
\* itself (nz_new = nz), so that the clamping writes into the caller's array.
EnsureStartsAtZero(z, nz) ==
    IF z.num[0] > 0
    THEN [z |-> [num |-> PrependZero(z.num), den |-> z.den],
          nz |-> [b \in DOMAIN nz |->
                    ClampRow([num |-> PrependZero(nz[b].num), den |-> nz[b].den])],
          inplace |-> FALSE]
    ELSE [z |-> z,
          nz |-> [b \in DOMAIN nz |-> ClampRow(nz[b])],
          inplace |-> TRUE]

\* ------------------------------------------------------------------ state

VARIABLES
    mode,                 \* options: the ranking mode
    weighting,            \* options: weight
    upsampling,           \* options: upsampling
    pc,                   \* "start", "ready" (setup returned config), "failed" (setup raised)
    error,                \* the exception setup raised, "" when none
    weights,              \* setup's weights array as read (lines 159-173)
    order,                \* setup's order (lines 219-306)
    rank,                 \* setup's rank (lines 219-306)
    nz,                   \* setup's nz[iext][ibin-1], the normalised histograms as read
    multiplicative_bias,  \* setup's multiplicative_bias[iext][ibin-1]
    config,               \* the dictionary setup returns
    ranks,                \* block['ranks', 'rank_hyperparm_<i>'] of the last execute
    sample,               \* execute's sample, one per ranking group
    block,                \* what the last execute wrote to its block
    status,               \* how the last execute ended: "", "ok" or the exception
    call                  \* one call of a helper on its own: arguments and result

vars == <<mode, weighting, upsampling, pc, error, weights, order, rank, nz,
          multiplicative_bias, config, ranks, sample, block, status, call>>

modes == {"unified", "separate", "inv-chi-unified", "inv-chi-separate",
          "random", "external", "no-rank"}

GroupedModes == {"no-rank", "unified", "random", "external", "inv-chi-unified"}

SeparateModes == {"separate", "inv-chi-separate"}

InvChiModes == {"inv-chi-unified", "inv-chi-separate"}

\* The weight a realisation's header may carry; has = FALSE is a header
\* without the weight key.
HeaderWeights == {0, 1, 2}

Headers == {[has |-> FALSE, weight |-> 0]} \cup {[has |-> TRUE, weight |-> w] : w \in HeaderWeights}

\* The values an external ranking file may hold.
ExternalVals == {1, 2}

NoFile == [given |-> FALSE, values |-> <<>>]

NoConfig == [built |-> FALSE]

NoCall == [fn |-> "", done |-> FALSE]

Unset == <<>>

\* ------------------------------------------------------------------ setup

\* weights = np.ones(n); with weighting, the header's weight, 0 on KeyError.
ReadWeight(weight_option, header) ==
    IF weight_option THEN (IF header.has THEN header.weight ELSE 0) ELSE 1

ReadWeights(weight_option, hdr) == [i \in DOMAIN hdr |-> ReadWeight(weight_option, hdr[i])]

\* The test for all-zero weights left out.
AllZeroWeightsUntested(w) == FALSE

\* np.array_equal(np.array([0]), np.unique(weights))
AllZeroWeights(w) == {w[i] : i \in DOMAIN w} = {0}

RECURSIVE TrapzTo(_, _, _)
TrapzTo(y, x, k) ==
    IF k < 1 THEN 0 ELSE (x[k] - x[k - 1]) * (y[k] + y[k - 1]) + TrapzTo(y, x, k - 1)

\* nz_mean = np.trapz(nz * zmid, zmid), for h = load_histogram_form(...)
NzMean(h) ==
    Rat(TrapzTo([j \in DOMAIN h.z.num |-> h.nz.num[j] * h.z.num[j]], h.z.num,
                Len0(h.z.num) - 1),
        2 * h.nz.den * h.z.den * h.z.den)

\* load_histogram_form and the mean redshift of every extension the file
\* may hold, tabulated once.
LoadTable ==
    [ups \in Upsamplings |-> [e \in Extensions |->
        [b \in DOMAIN e.BIN |->
            LET h == LoadHistogramForm(e, b + 1, ups)
            IN [z |-> h.z, nz |-> h.nz, mbias |-> h.mbias, nz_mean |-> NzMean(h)]]]]

\* The loop of lines 164-179 over the realisations and bins.
Loaded(exts, ups) == [i \in DOMAIN exts |-> LoadTable[ups][exts[i]]]

\* inv_chi_mean = np.trapz(nz / chi, chi) with chi from nz_to_gchi
InvChiMean(exts) ==
    [i \in DOMAIN exts |-> [b \in DOMAIN exts[0].BIN |-> [num |-> exts[i].inv_chi[b], den |-> 1]]]

\* The statistic the mode ranks by, per realisation and bin.
Statistic(m, exts, ups) ==
    IF m \in InvChiModes
    THEN InvChiMean(exts)
    ELSE LET ld == Loaded(exts, ups) IN [i \in DOMAIN exts |-> [b \in DOMAIN ld[i] |-> ld[i][b].nz_mean]]

Column(t, b) == [i \in DOMAIN t |-> t[i][b]]

\* The values order may take (lines 219-306): the seeded shuffle of the
\* random mode is some permutation, the other modes have one order.
OrderChoices(m, stat, external, n, nb) ==
    CASE m = "no-rank" -> {[k \in 0..(n - 1) |-> k]}
      [] m \in {"unified", "inv-chi-unified"} ->
            {Argsort([i \in 0..(n - 1) |-> RatMean(stat[i])])}
      [] m = "external" -> {Argsort(AsRat(external.values))}
      [] m = "random" -> Perms(n)
      [] OTHER ->
            LET cols == [b \in 0..(nb - 1) |-> Argsort(Column(stat, b))]
            IN {[k \in 0..(n - 1) |-> [b \in 0..(nb - 1) |-> cols[b][k]]]}

\* rank taken to be order itself, the second argsort left out.
RankOfAsOrder(m, ord, n, nb) == ord

\* rank = np.argsort(order), per column in the separate modes
RankOf(m, ord, n, nb) ==
    IF m \in SeparateModes
    THEN LET r == [b \in 0..(nb - 1) |-> Argsort(AsRat(Column(ord, b)))]
         IN [k \in 0..(n - 1) |-> [b \in 0..(nb - 1) |-> r[b][k]]]
    ELSE Argsort(AsRat(ord))

\* ranked_nz = nz[order], or ranked_nz[:, ibin-1] = nz[order[:, ibin-1], ibin-1]
RankedNz(m, hist, ord) ==
    IF m \in SeparateModes
    THEN [k \in DOMAIN hist |-> [b \in DOMAIN hist[k] |-> hist[ord[k][b]][b]]]
    ELSE [k \in DOMAIN hist |-> hist[ord[k]]]

\* ranked_cal = multiplicative_bias[order], assigned in the unified mode only
RankedCal(mb, ord) == [k \in DOMAIN mb |-> mb[ord[k]]]

\* The running sum taken over the weights in file order, weights[order]
\* left out.
CumulativeWeightsInFileOrder(m, w, ord, nb) ==
    IF m \in SeparateModes
    THEN [cum |-> LET c == NpCumsum(w) IN [k \in DOMAIN w |-> [b \in 0..(nb - 1) |-> c[k]]],
          total |-> NpSum(w)]
    ELSE [cum |-> NpCumsum(w), total |-> NpSum(w)]

\* weights[order], cumsum along axis 0, over weight_sum: entry k (and
\* column b) is cum[k] / total.
CumulativeWeights(m, w, ord, nb) ==
    IF m \in SeparateModes
    THEN [cum |-> LET col == [b \in 0..(nb - 1) |-> NpCumsum([k \in DOMAIN w |-> w[ord[k][b]]])]
                  IN [k \in DOMAIN w |-> [b \in 0..(nb - 1) |-> col[b][k]]],
          total |-> NpSum(w)]
    ELSE [cum |-> NpCumsum([k \in DOMAIN w |-> w[ord[k]]]), total |-> NpSum(w)]

\* The exception setup raises before it ranks, "" when it goes on.
ErrorBeforeRanking(m, w, fiducial, external) ==
    IF AllZeroWeights(w) THEN "RuntimeError"                                 \* line 188
    ELSE IF m = "inv-chi-unified" /\ fiducial THEN "NameError"               \* line 212
    ELSE IF m = "external" /\ ~external.given THEN "RuntimeError"            \* line 262
    ELSE ""

\* The exception setup raises after it has ranked: ranked_cal is bound in
\* the unified mode only (line 235) and read at line 320.
ErrorAfterRanking(m) == IF m = "unified" THEN "" ELSE "UnboundLocalError"

HeaderChoices(n) ==
    IF weighting THEN [0..(n - 1) -> Headers] ELSE {[i \in 0..(n - 1) |-> [has |-> FALSE, weight |-> 0]]}

\* The realisations a file of n may hold.  In the modes that rank by no
\* statistic of the histograms (no-rank, random, external) the histograms
\* enter neither order nor rank, and one file stands for all.
ExtensionChoices(n) ==
    IF mode \in {"no-rank", "random", "external"}
    THEN {[i \in 0..(n - 1) |-> ExtA]}
    ELSE [0..(n - 1) -> Extensions]

FiducialChoices == IF mode \in {"unified", "inv-chi-unified"} THEN BOOLEAN ELSE {FALSE}

ExternalChoices(n) ==
    IF mode = "external"
    THEN {NoFile} \cup {[given |-> TRUE, values |-> v] : v \in [0..(n - 1) -> ExternalVals]}
    ELSE {NoFile}

Init ==
    /\ mode \in modes
    /\ weighting \in BOOLEAN
    /\ upsampling \in Upsamplings
    /\ pc = "start"
    /\ error = ""
    /\ weights = Unset
    /\ order = Unset
    /\ rank = Unset
    /\ nz = Unset
    /\ multiplicative_bias = Unset
    /\ config = NoConfig
    /\ ranks = Unset
    /\ sample = Unset
    /\ block = Unset
    /\ status = ""
    /\ call = NoCall

SetupFails(w, e) ==
    /\ pc' = "failed"
    /\ error' = e
    /\ weights' = w
    /\ UNCHANGED <<order, rank, nz, multiplicative_bias, config>>

\* What setup computes from the histograms and the order alone (lines
\* 164-179 and 219-306).
Ranked(m, exts, ups, ord) ==
    LET n == Len0(exts)
        nb == Len0(exts[0].BIN)
        ld == Loaded(exts, ups)
        hist == [i \in 0..(n - 1) |-> [b \in 0..(nb - 1) |-> ld[i][b].nz]]
        mb == [i \in 0..(n - 1) |-> [b \in 0..(nb - 1) |-> ld[i][b].mbias]]
    IN [n_realisations |-> n,
        n_bins |-> nb,
        n_hist |-> Len0(exts[0].Z_MID) * ups,
        zmid |-> ld[n - 1][nb - 1].z,
        nz |-> hist,
        multiplicative_bias |-> mb,
        rank |-> RankOf(m, ord, n, nb),
        ranked_nz |-> RankedNz(m, hist, ord),
        ranked_cal |-> IF m = "unified" THEN RankedCal(mb, ord) ELSE Unset]

Setup ==
    /\ pc = "start"
    /\ \E n \in 1..MaxReal :
       \E exts \in ExtensionChoices(n), external \in ExternalChoices(n) :
       \E ord \in IF mode = "external" /\ ~external.given
                  THEN {Unset}
                  ELSE OrderChoices(mode, Statistic(mode, exts, upsampling), external, n,
                                    Len0(exts[0].BIN)) :
       \E r \in IF mode = "external" /\ ~external.given
                THEN {Unset}
                ELSE {Ranked(mode, exts, upsampling, ord)} :
       \E hdr \in HeaderChoices(n), fiducial \in FiducialChoices :
          LET w == ReadWeights(weighting, hdr)
              e1 == ErrorBeforeRanking(mode, w, fiducial, external)
          IN IF e1 # ""
             THEN SetupFails(w, e1)
             ELSE /\ weights' = w
                  /\ order' = ord
                  /\ rank' = r.rank
                  /\ IF ErrorAfterRanking(mode) # ""
                     THEN /\ pc' = "failed"
                          /\ error' = ErrorAfterRanking(mode)
                          /\ UNCHANGED <<nz, multiplicative_bias, config>>
                     ELSE /\ pc' = "ready"
                          /\ error' = ""
                          /\ nz' = r.nz
                          /\ multiplicative_bias' = r.multiplicative_bias
                          /\ config' =
                               [built |-> TRUE,
                                ranked_nz |-> r.ranked_nz,
                                mode |-> mode,
                                n_realisations |-> r.n_realisations,
                                zmid |-> r.zmid,
                                n_bins |-> r.n_bins,
                                n_hist |-> r.n_hist,
                                ranked_cal |-> r.ranked_cal,
                                weights |-> CumulativeWeights(mode, w, ord, r.n_bins)]
    /\ UNCHANGED <<mode, weighting, upsampling, ranks, sample, block, status, call>>

\* ---------------------------------------------------------------- execute

\* np.searchsorted(a, v), side left, as numpy's binary search runs it on the
\* rationals a[k] = cum[k] / total against v.
RECURSIVE BinarySearch(_, _, _, _, _)
BinarySearch(cum, total, v, lo, hi) ==
    IF lo < hi
    THEN LET mid == lo + ((hi - lo) \div 2)
         IN IF RatLess([num |-> cum[mid], den |-> total], v)
            THEN BinarySearch(cum, total, v, mid + 1, hi)
            ELSE BinarySearch(cum, total, v, lo, mid)
    ELSE lo

\* np.searchsorted with side='right': the first index whose entry is > v.
SearchSortedRight(cum, total, v) ==
    Cardinality({k \in DOMAIN cum : ~RatLess(v, [num |-> cum[k], den |-> total])})

SearchSorted(cum, total, v) == BinarySearch(cum, total, v, 0, Len0(cum))

\* The hyperparameters a sampler may hand over for an ensemble of n: the
\* multiples of 1/(2n) from below 0 to above 1.
HyperValues(n) == {[num |-> a, den |-> 2 * n] : a \in (-1)..(2 * n + 1)}

\* One hyperparameter per ranking group.
RankChoices(cfg) ==
    IF cfg.mode \in GroupedModes
    THEN [0..0 -> HyperValues(cfg.n_realisations)]
    ELSE [0..(cfg.n_bins - 1) -> HyperValues(cfg.n_realisations)]

\* The lookup clamped to the last ranked index.
SamplesClamped(cfg, rk) ==
    LET last(i) == IF i >= cfg.n_realisations THEN cfg.n_realisations - 1 ELSE i
    IN IF cfg.mode \in GroupedModes
       THEN [g \in 0..0 |-> last(SearchSorted(cfg.weights.cum, cfg.weights.total, rk[0]))]
       ELSE [g \in 0..(cfg.n_bins - 1) |->
               last(SearchSorted(Column(cfg.weights.cum, g), cfg.weights.total, rk[g]))]

\* sample, per ranking group (lines 357 and 379)
Samples(cfg, rk) ==
    IF cfg.mode \in GroupedModes
    THEN [g \in 0..0 |-> SearchSorted(cfg.weights.cum, cfg.weights.total, rk[0])]
    ELSE [g \in 0..(cfg.n_bins - 1) |->
            SearchSorted(Column(cfg.weights.cum, g), cfg.weights.total, rk[g])]

\* An index past the end of the ranked arrays raises IndexError.
IndexError(cfg, smp) == \E g \in DOMAIN smp : smp[g] >= cfg.n_realisations

\* The histograms handed to ensure_starts_at_zero: the row ranked_nz[sample]
\* of the grouped modes, the gathered nz_sampled of the separate modes.
Selected(cfg, smp) ==
    IF cfg.mode \in GroupedModes
    THEN cfg.ranked_nz[smp[0]]
    ELSE [b \in 0..(cfg.n_bins - 1) |-> cfg.ranked_nz[smp[b]][b]]

\* What execute writes to the block: nbin, the m<i> of the grouped modes
\* (lines 359-361), z, nz and the bin_<i>; out is what ensure_starts_at_zero
\* returned.
BlockWritten(cfg, smp, out) ==
    [nbin |-> cfg.n_bins,
     m |-> IF cfg.mode \in GroupedModes THEN cfg.ranked_cal[smp[0]] ELSE Unset,
     z |-> out.z,
     nz |-> Len0(out.z.num),
     bin |-> out.nz]

\* config after the call: in the grouped modes ranked_nz[sample] is a view
\* of config['ranked_nz'], and ensure_starts_at_zero clamps it in place when
\* it returns its argument; the separate modes hand over a fresh array.
ConfigAfter(cfg, smp, out) ==
    IF cfg.mode \in GroupedModes /\ out.inplace
    THEN [cfg EXCEPT !.ranked_nz[smp[0]] = out.nz]
    ELSE cfg

\* The block of a call that raised at line 359 or 380: nbin alone.
BlockAtIndexError(cfg) == [nbin |-> cfg.n_bins, m |-> Unset, z |-> Unset, nz |-> Unset, bin |-> Unset]

Execute ==
    /\ pc = "ready"
    /\ \E rk \in RankChoices(config) :
       \E smp \in {Samples(config, rk)} :
          /\ ranks' = rk
          /\ sample' = smp
          /\ IF IndexError(config, smp)
             THEN /\ status' = "IndexError"
                  /\ block' = BlockAtIndexError(config)
                  /\ config' = config
             ELSE \E out \in {EnsureStartsAtZero(config.zmid, Selected(config, smp))} :
                  /\ status' = "ok"
                  /\ block' = BlockWritten(config, smp, out)
                  /\ config' = ConfigAfter(config, smp, out)
    /\ UNCHANGED <<mode, weighting, upsampling, pc, error, weights, order, rank, nz,
                   multiplicative_bias, call>>

Next == Setup \/ Execute

Spec == Init /\ [][Next]_vars

\* ------------------------------------------- the helpers called on their own

\* The pipeline variables while a helper is called on its own.
Idle ==
    /\ mode = "no-rank"
    /\ weighting = FALSE
    /\ upsampling = 1
    /\ pc = "call"
    /\ error = ""
    /\ weights = Unset
    /\ order = Unset
    /\ rank = Unset
    /\ nz = Unset
    /\ multiplicative_bias = Unset
    /\ config = NoConfig
    /\ ranks = Unset
    /\ sample = Unset
    /\ block = Unset
    /\ status = ""

pipeline == <<mode, weighting, upsampling, pc, error, weights, order, rank, nz,
              multiplicative_bias, config, ranks, sample, block, status>>

\* The largest number of points of a grid handed to ensure_starts_at_zero.
MaxPoints == 2

\* The densities a histogram handed to ensure_starts_at_zero may hold.
ZeroDensities == {-1, 0, 2}

\* The grids: increasing, non-negative, starting at zero or above it.
ZeroGrids ==
    {[num |-> [j \in 0..(h - 1) |-> start + 2 * j], den |-> 1] :
        start \in {0, 1}, h \in 1..MaxPoints}

\* The histograms of two tomographic bins on a grid of h points.
ZeroHistograms(h) ==
    {[b \in 0..1 |-> [num |-> d[b], den |-> 1]] :
        d \in [0..1 -> [0..(h - 1) -> ZeroDensities]]}

InitZero ==
    /\ Idle
    /\ \E z \in ZeroGrids : \E hist \in ZeroHistograms(Len0(z.num)) :
          call = [fn |-> "ensure_starts_at_zero", z |-> z, nz |-> hist,
                  done |-> FALSE, out |-> Unset]

CallEnsureStartsAtZero ==
    /\ call.fn = "ensure_starts_at_zero"
    /\ ~call.done
    /\ call' = [call EXCEPT !.done = TRUE, !.out = EnsureStartsAtZero(call.z, call.nz)]
    /\ UNCHANGED pipeline

NextZero == CallEnsureStartsAtZero

SpecZero == InitZero /\ [][NextZero]_vars

\* The largest upsampling factor.
MaxUpsampling == 3

\* The bin edges of the native grids: from zero in equal bins (the edges
\* 0, 1, 2 in units of a half), from zero in unequal bins, from above zero.
HistEdges == {<<0, 2, 4>>, <<0, 2, 6>>, <<2, 4, 6>>, <<0, 2, 4, 6>>}

\* The densities of a native histogram column.
HistDensities == {1, 2, 4}

\* An extension with the given edges and one density column.
HistExtension(edges, column) ==
    LET h == Len(edges) - 1
    IN [Z_LOW |-> [i \in 0..(h - 1) |-> edges[i + 1]],
        Z_HIGH |-> [i \in 0..(h - 1) |-> edges[i + 2]],
        Z_MID |-> [i \in 0..(h - 1) |-> (edges[i + 1] + edges[i + 2]) \div 2],
        BIN |-> [b \in 0..0 |-> column]]

InitHist ==
    /\ Idle
    /\ \E edges \in HistEdges : \E column \in [0..(Len(edges) - 2) -> HistDensities] :
       \E ups \in 1..MaxUpsampling :
          call = [fn |-> "load_histogram_form", ext |-> HistExtension(edges, column),
                  bin |-> 1, upsampling |-> ups, done |-> FALSE, out |-> Unset]

CallLoadHistogramForm ==
    /\ call.fn = "load_histogram_form"
    /\ ~call.done
    /\ call' = [call EXCEPT !.done = TRUE,
                            !.out = LoadHistogramForm(call.ext, call.bin, call.upsampling)]
    /\ UNCHANGED pipeline

NextHist == CallLoadHistogramForm

SpecHist == InitHist /\ [][NextHist]_vars

\* ----------------------------------------------------------------- claims

Executed == pc = "ready" /\ status # ""

InUnit(h) == 0 <= h.num /\ h.num < h.den

Max0(x) == IF x < 0 THEN 0 ELSE x

\* The cumulative weight of ranked index k in ranking group g, as a rational.
TableEntry(g, k) ==
    IF config.mode \in GroupedModes
    THEN [num |-> config.weights.cum[k], den |-> config.weights.total]
    ELSE [num |-> config.weights.cum[k][g], den |-> config.weights.total]

\* The realisation at ranked index k of ranking group g.
RealisationAt(g, k) == IF mode \in GroupedModes THEN order[k] ELSE order[k][g]

\* The ranking group that tomographic bin b belongs to.
GroupOf(b) == IF mode \in GroupedModes THEN 0 ELSE b

\* Row b of the block is the histogram src floored: a zero in front when
\* the grid does not start at zero, and negative densities set to zero.
IsFloored(row, src) ==
    LET off == IF config.zmid.num[0] > 0 THEN 1 ELSE 0
    IN /\ row.den = src.den
       /\ Len0(row.num) = Len0(src.num) + off
       /\ off = 1 => row.num[0] = 0
       /\ \A j \in DOMAIN src.num : row.num[j + off] = Max0(src.num[j])

C2_CalibrationBiasPerBin ==
    /\ pc = "failed" => error # "UnboundLocalError"
    /\ (Executed /\ \A g \in DOMAIN ranks : InUnit(ranks[g])) =>
          /\ status = "ok"
          /\ \A b \in 0..(config.n_bins - 1) :
                block.m[b] = multiplicative_bias[RealisationAt(GroupOf(b), sample[GroupOf(b)])][b]

\* setup got as far as ranking: order and rank hold what it computed.
HasRanked == pc = "ready" \/ (pc = "failed" /\ error = "UnboundLocalError")

IsPermutation(p) ==
    /\ \A k \in DOMAIN p : p[k] \in 0..(Len0(p) - 1)
    /\ \A j, k \in DOMAIN p : p[j] = p[k] => j = k

IsInverse(r, p) == DOMAIN r = DOMAIN p /\ \A k \in DOMAIN p : r[p[k]] = k

\* C3: in every mode order is a permutation of [0,N) and rank its inverse
\* (each bin's column, in the separate modes); in no-rank mode order is the
\* identity.
C3_OrderIsPermutation ==
    HasRanked =>
        /\ DOMAIN order = 0..(Len0(weights) - 1)
        /\ IF mode \in SeparateModes
           THEN \A b \in DOMAIN order[0] :
                   /\ IsPermutation(Column(order, b))
                   /\ IsInverse(Column(rank, b), Column(order, b))
           ELSE IsPermutation(order) /\ IsInverse(rank, order)
        /\ mode = "no-rank" => \A k \in DOMAIN order : order[k] = k

\* C3 witness: the separate mode ranks three realisations, the two bins in
\* different orders, one of them not its own inverse.
C3_Witness ==
    /\ HasRanked
    /\ mode = "separate"
    /\ Len0(order) = 3
    /\ Column(order, 0) # Column(order, 1)
    /\ Column(rank, 0) # Column(order, 0)

C5_ExecuteLeavesConfigUnchanged == [][pc = "ready" => config' = config]_vars

\* The hyperparameter of the last call, in the grouped modes.
H0 == ranks[0]

\* C8 as stated: a hyperparameter outside [0,1) does not make execute fail,
\* and the selected index is within [0,N).
C8_OutOfRangeClamps ==
    (Executed /\ mode \in GroupedModes /\ ~InUnit(H0)) =>
        status = "ok" /\ sample[0] \in 0..(config.n_realisations - 1)

\* C8 amended: a negative hyperparameter selects ranked index 0 and a
\* hyperparameter equal to 1 selects the first index whose cumulative weight
\* is 1, both within [0,N) and without failing; a hyperparameter above 1
\* makes the lookup return N, and execute fails with IndexError.
C8_OutOfRangeLookup ==
    (Executed /\ mode \in GroupedModes) =>
        /\ H0.num < 0 => status = "ok" /\ sample[0] = 0
        /\ H0.num = H0.den =>
              /\ status = "ok"
              /\ sample[0] \in 0..(config.n_realisations - 1)
              /\ TableEntry(0, sample[0]).num = config.weights.total
              /\ \A j \in 0..(sample[0] - 1) : TableEntry(0, j).num < config.weights.total
        /\ H0.num > H0.den => status = "IndexError" /\ sample[0] = config.n_realisations

\* C8 witness: a hyperparameter above 1 on three realisations.
C8_Witness ==
    /\ Executed
    /\ config.n_realisations = 3
    /\ H0.num > H0.den
    /\ status = "IndexError"

\* C9 as stated: with weighting on, execute never selects a realisation of
\* zero weight, for any hyperparameter in [0,1).
C9_ZeroWeightNeverSelected ==
    (Executed /\ mode \in GroupedModes /\ weighting /\ InUnit(H0)) =>
        weights[order[sample[0]]] > 0

\* C9 amended: with weighting on, execute never selects a realisation of
\* zero weight for any hyperparameter in (0,1), wherever that realisation is
\* ranked; the hyperparameter 0 selects ranked index 0 whatever its weight.
C9_ZeroWeightNotSelectedAboveZero ==
    (Executed /\ mode \in GroupedModes /\ weighting) =>
        /\ (InUnit(H0) /\ H0.num > 0) => weights[order[sample[0]]] > 0
        /\ H0.num = 0 => sample[0] = 0

\* C9 witness: the realisations ranked first and second have zero weight,
\* and the smallest positive hyperparameter passes over both.
C9_Witness ==
    /\ Executed
    /\ weighting
    /\ config.n_realisations = 3
    /\ weights[order[0]] = 0
    /\ weights[order[1]] = 0
    /\ H0.num = 1
    /\ sample[0] = 2
    /\ order[0] # 0

\* C6 as stated: on a grid that does not start at zero the output is the
\* grid and every bin's density with a zero in front, the other points
\* shifted by one and otherwise as given; on a grid that starts at zero grid
\* and densities come back unchanged but for negative densities set to zero;
\* either way the grid returned starts at zero and no density is negative.
C6_ZeroFloorAsStated ==
    call.done =>
        /\ call.z.num[0] > 0 =>
              /\ call.out.z.num = PrependZero(call.z.num)
              /\ \A b \in DOMAIN call.nz : call.out.nz[b].num = PrependZero(call.nz[b].num)
        /\ call.z.num[0] = 0 =>
              /\ call.out.z = call.z
              /\ \A b \in DOMAIN call.nz : \A j \in DOMAIN call.nz[b].num :
                    call.out.nz[b].num[j] = Max0(call.nz[b].num[j])
        /\ call.out.z.num[0] = 0
        /\ \A b \in DOMAIN call.out.nz : \A j \in DOMAIN call.out.nz[b].num :
              call.out.nz[b].num[j] >= 0

\* C6 amended: on a grid that does not start at zero the output is the grid
\* and every bin's density with a zero in front, the other points shifted by
\* one, with negative densities set to zero; on a grid that starts at zero
\* grid and densities come back unchanged but for negative densities set to
\* zero; either way the grid returned starts at zero and no density is
\* negative.
C6_ZeroFloor ==
    call.done =>
        /\ call.z.num[0] > 0 =>
              /\ call.out.z.num = PrependZero(call.z.num)
              /\ call.out.z.den = call.z.den
              /\ \A b \in DOMAIN call.nz :
                    /\ Len0(call.out.nz[b].num) = Len0(call.nz[b].num) + 1
                    /\ call.out.nz[b].num[0] = 0
                    /\ \A j \in DOMAIN call.nz[b].num :
                          call.out.nz[b].num[j + 1] = Max0(call.nz[b].num[j])
        /\ call.z.num[0] = 0 =>
              /\ call.out.z = call.z
              /\ \A b \in DOMAIN call.nz :
                    /\ DOMAIN call.out.nz[b].num = DOMAIN call.nz[b].num
                    /\ \A j \in DOMAIN call.nz[b].num :
                          call.out.nz[b].num[j] = Max0(call.nz[b].num[j])
        /\ DOMAIN call.out.nz = DOMAIN call.nz
        /\ call.out.z.num[0] = 0
        /\ \A b \in DOMAIN call.out.nz : \A j \in DOMAIN call.out.nz[b].num :
              call.out.nz[b].num[j] >= 0

\* C6 witness: a grid starting above zero with a negative density in it.
C6_Witness ==
    /\ call.done
    /\ call.z.num[0] > 0
    /\ Len0(call.z.num) = 2
    /\ call.nz[0].num[1] < 0
    /\ call.nz[1].num[0] > 0

\* The fine grid point j lies in the coarse bin i of the call's extension
\* (the upper edge of the last bin counted in).
InCoarseBin(j, i) ==
    LET z == call.out.z
        e == call.ext
    IN /\ e.Z_LOW[i] * z.den <= z.num[j]
       /\ \/ z.num[j] < e.Z_HIGH[i] * z.den
          \/ (i = Len0(e.Z_LOW) - 1 /\ z.num[j] = e.Z_HIGH[i] * z.den)

\* C7: with an upsampling factor > 1 every fine grid point gets the native
\* density of the coarse bin that holds it, and the sum captured before
\* normalising (the bias plus 1) is the total of the native histogram.
C7_UpsamplingKeepsMass ==
    (call.done /\ call.upsampling > 1) =>
        /\ \A j \in DOMAIN call.out.z.num : \A i \in DOMAIN call.ext.Z_LOW :
              InCoarseBin(j, i) => call.out.nz.num[j] = call.ext.BIN[call.bin - 1][i]
        /\ call.out.nz.den = NpSum(call.ext.BIN[call.bin - 1])
        /\ call.out.mbias = NpSum(call.ext.BIN[call.bin - 1]) - 1

====
